---- MODULE Spec2Model ----
(***************************************************************************)
(* SoilGrids Explorer (app.py): the response normalisation and value       *)
(* selection of fetch_property_for_point and the per-property loop of      *)
(* fetch_soil_data_all.                                                    *)
(*                                                                         *)
(* JSON values are tagged records.  A text value is a sequence of text     *)
(* tokens: texts the code parses (depth labels, numeric strings) are       *)
(* spelled character by character, texts it only compares or passes on     *)
(* (property names, unit names) are one token.  A number is fixed point:   *)
(* Num(i, f) is i + f / Frac with 0 <= f < Frac, so the 1e-6 tolerance of  *)
(* the depth match and the 9999.0 sort sentinel are both representable.    *)
(* A Python exception leaving a function is the value Raise.               *)
(***************************************************************************)
EXTENDS Integers, Sequences, FiniteSets, TLC

VARIABLES
  pc,        \* where the call is: "call", "loop", "done", "returned", "raised"
  arg,       \* the arguments of the call
  ret,       \* what the call returned (Raise when an exception left it)
  idx,       \* fetch_soil_data_all: how many of PROPERTIES the loop has done
  out,       \* fetch_soil_data_all: the mapping out
  upstream,  \* the state of the SoilGrids service
  served,    \* the responses requests.get has given, in order
  requests   \* the params of the requests made, in order

vars == <<pc, arg, ret, idx, out, upstream, served, requests>>

-----------------------------------------------------------------------------
(* JSON values and the Python primitives the code applies to them *)

None == [t |-> "null"]

Raise == [t |-> "raise"]

Bool(b) == [t |-> "bool", b |-> b]

Num(i, f) == [t |-> "num", i |-> i, f |-> f]

Whole(i) == Num(i, 0)

Str(s) == [t |-> "str", s |-> s]

List(xs) == [t |-> "list", xs |-> xs]

\* kv: the items [k, v] of the mapping in stored order, keys distinct
Dict(kv) == [t |-> "dict", kv |-> kv]

Tuple(a, b) == [t |-> "tuple", top |-> a, bottom |-> b]

KV(k, v) == [k |-> k, v |-> v]

\* ticks per unit of the fixed-point numbers
Frac == 10 * 1000 * 1000

\* Python truth value (not x, x or y, if x)
Truthy(v) ==
  CASE v.t = "null" -> FALSE
    [] v.t = "bool" -> v.b
    [] v.t = "num" -> ~(v.i = 0 /\ v.f = 0)
    [] v.t = "str" -> v.s # <<>>
    [] v.t = "list" -> v.xs # <<>>
    [] v.t = "dict" -> v.kv # <<>>
    [] OTHER -> TRUE

\* x or y
Or(x, y) == IF Truthy(x) THEN x ELSE y

\* d.get(k, default) on a mapping d
GetOr(d, k, default) ==
  IF \E j \in 1..Len(d.kv) : d.kv[j].k = k
  THEN d.kv[CHOOSE j \in 1..Len(d.kv) : d.kv[j].k = k].v
  ELSE default

\* d.get(k) on a mapping d
Get(d, k) == GetOr(d, k, None)

Digits == {"0", "1", "2", "3", "4", "5", "6", "7", "8", "9"}

DigitVal(c) ==
  CASE c = "0" -> 0 [] c = "1" -> 1 [] c = "2" -> 2 [] c = "3" -> 3
    [] c = "4" -> 4 [] c = "5" -> 5 [] c = "6" -> 6 [] c = "7" -> 7
    [] c = "8" -> 8 [] c = "9" -> 9

RECURSIVE DigitsValue(_)
DigitsValue(ds) ==
  IF ds = <<>> THEN 0
  ELSE DigitsValue(SubSeq(ds, 1, Len(ds) - 1)) * 10 + DigitVal(ds[Len(ds)])

RECURSIVE FracTicks(_, _)
FracTicks(ds, scale) ==
  IF ds = <<>> \/ scale = 0 THEN 0
  ELSE DigitVal(Head(ds)) * scale + FracTicks(Tail(ds), scale \div 10)

\* the index of the first point of s, Len(s) + 1 when it has none
PointIndex(s) ==
  IF \E j \in 1..Len(s) : s[j] = "."
  THEN CHOOSE j \in 1..Len(s) : s[j] = "." /\ \A i \in 1..(j - 1) : s[i] # "."
  ELSE Len(s) + 1

\* the literal with integer digits ip and fraction digits fp: a digit somewhere, digits only
DecimalParts(ip, fp) ==
  IF ip \o fp = <<>> \/ \E j \in 1..Len(ip \o fp) : (ip \o fp)[j] \notin Digits
  THEN Raise
  ELSE Num(DigitsValue(ip), FracTicks(fp, Frac \div 10))

\* the literal s split at index d
SplitAt(s, d) == DecimalParts(SubSeq(s, 1, d - 1), SubSeq(s, d + 1, Len(s)))

\* float() of an unsigned decimal literal: digits with at most one point
DecimalOf(s) == SplitAt(s, PointIndex(s))

Negate(x) == IF x.f = 0 THEN Num(0 - x.i, 0) ELSE Num(0 - x.i - 1, Frac - x.f)

RECURSIVE Strip(_)
Strip(s) ==
  IF s # <<>> /\ Head(s) = " " THEN Strip(Tail(s))
  ELSE IF s # <<>> /\ s[Len(s)] = " " THEN Strip(SubSeq(s, 1, Len(s) - 1))
  ELSE s

\* x with the sign applied
Signed(sign, x) == IF x = Raise \/ sign = "+" THEN x ELSE Negate(x)

\* float() of a text without surrounding blanks: an optional sign, a decimal literal
ParseStripped(u) ==
  IF u # <<>> /\ Head(u) \in {"+", "-"} THEN Signed(Head(u), DecimalOf(Tail(u)))
  ELSE DecimalOf(u)

\* float() of a text: surrounding blanks stripped
ParseFloat(s) == ParseStripped(Strip(s))

\* float(v): Raise stands for ValueError / TypeError
ToFloat(v) ==
  CASE v.t = "num" -> v
    [] v.t = "bool" -> IF v.b THEN Whole(1) ELSE Whole(0)
    [] v.t = "str" -> ParseFloat(v.s)
    [] OTHER -> Raise

\* a < b on numbers
Less(a, b) == a.i < b.i \/ (a.i = b.i /\ a.f < b.f)

\* 1e-6 in ticks
Tolerance == Frac \div (1000 * 1000)

\* abs(a - b) < 1e-6
Close(a, b) ==
  \/ a.i = b.i /\ a.f - b.f < Tolerance /\ b.f - a.f < Tolerance
  \/ a.i = b.i + 1 /\ a.f + Frac - b.f < Tolerance
  \/ b.i = a.i + 1 /\ b.f + Frac - a.f < Tolerance

-----------------------------------------------------------------------------
(* Module constants *)

PROPERTIES == <<"soc", "phh2o", "sand", "silt", "clay", "bdod", "ocs">>

PREFERRED_DEPTHS == <<Tuple(Whole(0), Whole(5)), Tuple(Whole(0), Whole(30)), Tuple(Whole(0), Whole(15))>>

-----------------------------------------------------------------------------
(* _depth_label_re and _try_parse_depth_from_label *)

\* the class [-\u2013]: the hyphen and the en dash (written "endash")
Dashes == {"-", "endash"}

RECURSIVE DigitsEnd(_, _)
\* the last index of the run of digits starting at i (i - 1 when there is none)
DigitsEnd(s, i) ==
  IF i <= Len(s) /\ s[i] \in Digits THEN DigitsEnd(s, i + 1) ELSE i - 1

\* the end of \.?\d* after the digits that end at e1 (e1 < i: no digit at i, no match)
FractionEnd(s, i, e1) ==
  IF e1 < i THEN 0
  ELSE IF e1 + 1 <= Len(s) /\ s[e1 + 1] = "." THEN DigitsEnd(s, e1 + 2)
  ELSE e1

\* the last index of the greedy match of \d+\.?\d* at i, 0 when it does not match
NumberEnd(s, i) == FractionEnd(s, i, DigitsEnd(s, i))

RECURSIVE SkipSpaces(_, _)
SkipSpaces(s, i) == IF i <= Len(s) /\ s[i] = " " THEN SkipSpaces(s, i + 1) ELSE i

\* the two groups, the second number ending at e2
Groups(s, i, e1, k, e2) ==
  IF e2 = 0 THEN None ELSE Tuple(SubSeq(s, i, e1), SubSeq(s, k, e2))

\* the dash at j, then blanks and the second number
DashAt(s, i, e1, j) ==
  IF j > Len(s) THEN None
  ELSE IF s[j] \notin Dashes THEN None
  ELSE Groups(s, i, e1, SkipSpaces(s, j + 1), NumberEnd(s, SkipSpaces(s, j + 1)))

\* the first number ending at e1, then blanks and the dash
FirstGroup(s, i, e1) == IF e1 = 0 THEN None ELSE DashAt(s, i, e1, SkipSpaces(s, e1 + 1))

\* _depth_label_re.match at position i: the two groups, or None
MatchAt(s, i) == FirstGroup(s, i, NumberEnd(s, i))

RECURSIVE SearchFrom(_, _)
\* m, the match at i, or the search from i + 1 on
MatchOrNext(s, i, m) == IF m # None THEN m ELSE SearchFrom(s, i + 1)

\* the leftmost match at i or later
SearchFrom(s, i) == IF i > Len(s) THEN None ELSE MatchOrNext(s, i, MatchAt(s, i))

\* _depth_label_re.search: the leftmost match
depth_label_re_search(s) == SearchFrom(s, 1)

\* (top, bottom) of two conversions made under a try, None when one raised
FloatPair(top, bottom) == IF top = Raise \/ bottom = Raise THEN None ELSE Tuple(top, bottom)

\* if m: float(m.group(1)), float(m.group(2))
GroupsToFloats(m) ==
  IF m # None THEN FloatPair(ParseFloat(m.top), ParseFloat(m.bottom)) ELSE None

_try_parse_depth_from_label(label) ==
  IF ~Truthy(label) \/ label.t # "str" THEN None
  ELSE GroupsToFloats(depth_label_re_search(label.s))

-----------------------------------------------------------------------------
(* _get_top_bottom_from_range *)

\* the try block: top and bottom settled
TopBottom(top, bottom) ==
  IF top # None /\ bottom # None THEN FloatPair(ToFloat(top), ToFloat(bottom)) ELSE None

\* rng.get(k) if rng.get(k) is not None else v
DepthKeyOr(rng, k, v) == IF Get(rng, k) # None THEN Get(rng, k) ELSE v

\* if top is None or bottom is None: both read again from top_depth / bottom_depth
FillFromDepthKeys(rng, top, bottom) ==
  IF top = None \/ bottom = None
  THEN TopBottom(DepthKeyOr(rng, "top_depth", top), DepthKeyOr(rng, "bottom_depth", bottom))
  ELSE TopBottom(top, bottom)

\* rng.get("top") and rng.get("bottom"), outside the try
RangeTopBottom(rng) ==
  IF rng.t # "dict" THEN Raise ELSE FillFromDepthKeys(rng, Get(rng, "top"), Get(rng, "bottom"))

_get_top_bottom_from_range(d) ==
  IF d.t # "dict" THEN Raise ELSE RangeTopBottom(Or(Get(d, "range"), Dict(<<>>)))

-----------------------------------------------------------------------------
(* _pick_depth_entry *)

NoMatch == [t |-> "nomatch"]

\* tb and abs(tb[0] - pref_top) < 1e-6 and abs(tb[1] - pref_bottom) < 1e-6
Matches(tb, pref) == tb # None /\ Close(tb.top, pref.top) /\ Close(tb.bottom, pref.bottom)

\* 2) the label: lbl = d.get("label") or d.get("depth_label") or ""
MatchLabel(d, pref) ==
  Bool(Matches(_try_parse_depth_from_label(
                 Or(Or(Get(d, "label"), Get(d, "depth_label")), Str(<<>>))), pref))

\* 1) the range keys, tb being _get_top_bottom_from_range(d)
MatchRange(d, tb, pref) ==
  IF tb = Raise THEN Raise
  ELSE IF Matches(tb, pref) THEN Bool(TRUE)
  ELSE MatchLabel(d, pref)

\* the body of the inner loop for entry d: TRUE (return d), FALSE (next entry) or Raise
MatchEntry(d, pref) == MatchRange(d, _get_top_bottom_from_range(d), pref)

RECURSIVE ScanDepths(_, _, _)
\* entry j gave m: return it, raise, or go on with the next entry
ScanStep(xs, j, pref, m) ==
  IF m = Raise THEN Raise
  ELSE IF m.b THEN xs[j]
  ELSE ScanDepths(xs, j + 1, pref)

\* for d in depths (from index j on), for one preferred pair
ScanDepths(xs, j, pref) ==
  IF j > Len(xs) THEN NoMatch ELSE ScanStep(xs, j, pref, MatchEntry(xs[j], pref))

\* the loops nested the other way round: the first entry that matches any preferred pair
ScanEntryMajor(xs, p) ==
  LET J == {j \in 1..Len(xs) :
              \E q \in p..Len(PREFERRED_DEPTHS) :
                 MatchEntry(xs[j], PREFERRED_DEPTHS[q]) = Bool(TRUE)}
  IN  IF J = {} THEN NoMatch ELSE xs[CHOOSE j \in J : \A k \in J : j <= k]

RECURSIVE ScanPreferred(_, _)
\* the inner loop for pair p gave r: return it, or go on with the next pair
PreferredStep(xs, p, r) == IF r # NoMatch THEN r ELSE ScanPreferred(xs, p + 1)

\* for pref_top, pref_bottom in PREFERRED_DEPTHS (from index p on)
ScanPreferred(xs, p) ==
  IF p > Len(PREFERRED_DEPTHS) THEN NoMatch
  ELSE PreferredStep(xs, p, ScanDepths(xs, 1, PREFERRED_DEPTHS[p]))

\* the sort sentinel of an entry with no (top, bottom)
SentinelTop == 9999

\* tb[0] if tb else 9999.0
TopOrSentinel(tb) ==
  IF tb = Raise THEN Raise
  ELSE IF tb # None THEN tb.top ELSE Whole(SentinelTop)

\* the key lambda of sorted()
SortKey(x) == TopOrSentinel(_get_top_bottom_from_range(x))

RECURSIVE InsertSorted(_, _)
\* x placed after every element whose key is not greater (a stable sort)
InsertSorted(x, sorted) ==
  IF sorted = <<>> THEN <<x>>
  ELSE IF Less(SortKey(x), SortKey(Head(sorted))) THEN <<x>> \o sorted
  ELSE <<Head(sorted)>> \o InsertSorted(x, Tail(sorted))

RECURSIVE SortedByTop(_, _)
\* sorted(depths, key=...): the entries from index j on inserted into acc
SortedByTop(xs, acc) ==
  IF xs = <<>> THEN acc ELSE SortedByTop(Tail(xs), InsertSorted(Head(xs), acc))

\* the try block of the fallback: sorted_depths[0], or depths[0] on an exception
TopmostEntry(xs) ==
  IF \E j \in 1..Len(xs) : SortKey(xs[j]) = Raise THEN xs[1]
  ELSE SortedByTop(xs, <<>>)[1]

\* r is what the loops over the preferred pairs gave
MatchOrTopmost(r, xs) == IF r # NoMatch THEN r ELSE TopmostEntry(xs)

_pick_depth_entry(depths) ==
  IF ~Truthy(depths) THEN None
  ELSE IF depths.t # "list" THEN Raise
  ELSE MatchOrTopmost(ScanPreferred(depths.xs, 1), depths.xs)

-----------------------------------------------------------------------------
(* _extract_numeric_from_values *)

\* the preference list with the median spellings ahead of the mean
prefer_median_first == <<"Q0.5", "median", "mean", "Q0.05", "Q0.95">>

prefer == <<"mean", "Q0.5", "median", "Q0.05", "Q0.95">>

\* float(v) under the try: NoMatch when it raises
FloatOrSkip(f) == IF f = Raise THEN NoMatch ELSE f

\* if v is not None: try float(v); NoMatch when the loop goes on
NumericOrSkip(v) == IF v = None THEN NoMatch ELSE FloatOrSkip(ToFloat(v))

RECURSIVE PreferLoop(_, _)
\* key j gave f: return it, or go on with the next key
PreferStep(values, j, f) == IF f # NoMatch THEN f ELSE PreferLoop(values, j + 1)

\* for k in prefer (from index j on): NoMatch when the loop falls through
PreferLoop(values, j) ==
  IF j > Len(prefer) THEN NoMatch
  ELSE PreferStep(values, j, NumericOrSkip(Get(values, prefer[j])))

RECURSIVE ItemsLoop(_, _)
\* item j gave f: return it, or go on with the next item
ItemsStep(kv, j, f) == IF f # NoMatch THEN f ELSE ItemsLoop(kv, j + 1)

\* for k, v in values.items() (from index j on)
ItemsLoop(kv, j) ==
  IF j > Len(kv) THEN None ELSE ItemsStep(kv, j, NumericOrSkip(kv[j].v))

\* r is what the loop over prefer gave
PreferredOrFirst(r, values) == IF r # NoMatch THEN r ELSE ItemsLoop(values.kv, 1)

_extract_numeric_from_values(values) ==
  IF values.t # "dict" THEN None ELSE PreferredOrFirst(PreferLoop(values, 1), values)

-----------------------------------------------------------------------------
(* _extract_unit *)

\* the target units ahead of the mapped units
_extract_unit_target_first(layer) ==
  LET um == Or(Get(layer, "unit_measure"), Dict(<<>>))
  IN  IF um.t # "dict" THEN Raise
      ELSE Or(Or(Get(um, "target_units"), Get(um, "mapped_units")), Get(um, "unit"))

\* um.get("mapped_units") or um.get("target_units") or um.get("unit")
UnitOf(um) ==
  IF um.t # "dict" THEN Raise
  ELSE Or(Or(Get(um, "mapped_units"), Get(um, "target_units")), Get(um, "unit"))

_extract_unit(layer) == UnitOf(Or(Get(layer, "unit_measure"), Dict(<<>>)))

-----------------------------------------------------------------------------
(* fetch_property_for_point *)

\* what requests.get gave: exc is the RequestException's text (None when none was
\* raised), json is the parsed body, or Raise when r.json() raises
Response(exc, status, text, json) == [exc |-> exc, status |-> status, text |-> text, json |-> json]

\* the (value, unit, raw) the function returns
Triple(value, unit, raw) == [t |-> "triple", value |-> value, unit |-> unit, raw |-> raw]

StatusToken(n) ==
  CASE n = 200 -> "200" [] n = 404 -> "404" [] n = 500 -> "500" [] OTHER -> "other"

\* every code of PROPERTIES in one request
AllCodes == "soc,phh2o,sand,silt,clay,bdod,ocs"

\* the params of a batched request
params_batched(lat, lon, prop) ==
  [lat |-> lat, lon |-> lon, property |-> AllCodes, depth_intervals |-> "0-5", value |-> "mean"]

params(lat, lon, prop) ==
  [lat |-> lat, lon |-> lon, property |-> prop, depth_intervals |-> "0-5", value |-> "mean"]

RECURSIVE LastNamed(_, _, _)
\* the scan without its break: the last mapping named prop
LastNamed(xs, j, prop) ==
  IF j > Len(xs) THEN None
  ELSE LET later == LastNamed(xs, j + 1, prop)
       IN  IF later # None THEN later
           ELSE IF xs[j].t = "dict" /\ Get(xs[j], "name") = Str(<<prop>>) THEN xs[j]
           ELSE None

RECURSIVE FirstNamed(_, _, _)
\* the scan of a list of layers (from index j on) for the first mapping named prop
FirstNamed(xs, j, prop) ==
  IF j > Len(xs) THEN None
  ELSE IF xs[j].t = "dict" /\ Get(xs[j], "name") = Str(<<prop>>) THEN xs[j]
  ELSE FirstNamed(xs, j + 1, prop)

\* layer_obj of a parsed body's layers collection
LocateLayer(layers, prop) ==
  CASE layers.t = "dict" -> Get(layers, prop)
    [] layers.t = "list" -> FirstNamed(layers.xs, 1, prop)
    [] OTHER -> None

\* (None, unit, layer_obj)
WithoutValue(unit, layer_obj) == IF unit = Raise THEN Raise ELSE Triple(None, unit, layer_obj)

\* return None, _extract_unit(layer_obj) if isinstance(layer_obj, dict) else None, layer_obj
NoValue(layer_obj) ==
  WithoutValue(IF layer_obj.t = "dict" THEN _extract_unit(layer_obj) ELSE None, layer_obj)

\* x / d for a whole divisor d
Divide(x, d) == Num(x.i \div d.i, ((x.i % d.i) * Frac + x.f) \div d.i)

\* the value divided by the layer's unit_measure d_factor when there is one
SelectValueScaled(layer_obj) ==
  IF layer_obj.t # "dict" THEN Raise
  ELSE LET depths == Or(GetOr(layer_obj, "depths", List(<<>>)), List(<<>>))
       IN  IF ~Truthy(depths) THEN NoValue(layer_obj)
           ELSE LET chosen == _pick_depth_entry(depths)
                IN  IF chosen = Raise THEN Raise
                    ELSE IF ~Truthy(chosen) THEN NoValue(layer_obj)
                    ELSE LET values == Or(GetOr(chosen, "values", Dict(<<>>)), Dict(<<>>))
                             numeric == _extract_numeric_from_values(values)
                             unit == _extract_unit(layer_obj)
                             um == Or(Get(layer_obj, "unit_measure"), Dict(<<>>))
                             d == IF um.t = "dict" THEN Get(um, "d_factor") ELSE None
                         IN  IF unit = Raise THEN Raise
                             ELSE IF numeric # None /\ d.t = "num" /\ d.i > 0
                             THEN Triple(Divide(numeric, d), unit, layer_obj)
                             ELSE Triple(numeric, unit, layer_obj)

\* return numeric, unit, layer_obj
Selected(numeric, unit, layer_obj) ==
  IF unit = Raise THEN Raise ELSE Triple(numeric, unit, layer_obj)

\* from `if not chosen` on
FromChosen(layer_obj, chosen) ==
  IF chosen = Raise THEN Raise
  ELSE IF ~Truthy(chosen) THEN NoValue(layer_obj)
  ELSE Selected(_extract_numeric_from_values(Or(GetOr(chosen, "values", Dict(<<>>)), Dict(<<>>))),
                _extract_unit(layer_obj), layer_obj)

\* from `if not isinstance(layer_obj, dict) or not depths` on
FromDepths(layer_obj, depths) ==
  IF ~Truthy(depths) THEN NoValue(layer_obj)
  ELSE FromChosen(layer_obj, _pick_depth_entry(depths))

\* from layer_obj on: depths = layer_obj.get("depths", []) or []
SelectValue(layer_obj) ==
  IF layer_obj.t # "dict" THEN Raise
  ELSE FromDepths(layer_obj, Or(GetOr(layer_obj, "depths", List(<<>>)), List(<<>>)))

\* from `if not layer_obj` on
FromLayer(layer_obj, data) ==
  IF ~Truthy(layer_obj) THEN Triple(None, None, data) ELSE SelectValue(layer_obj)

\* from layers = data.get("properties", {}).get("layers") on
FromProperties(props, data, prop) ==
  IF props.t # "dict" THEN Raise ELSE FromLayer(LocateLayer(Get(props, "layers"), prop), data)

\* from the parsed body on
ParseBody(data, prop) ==
  IF data.t # "dict" THEN Raise
  ELSE FromProperties(GetOr(data, "properties", Dict(<<>>)), data, prop)

\* r is what requests.get(SOILGRIDS_API, params=params, timeout=25) gave
fetch_property_for_point(r, prop) ==
  IF r.exc # None THEN Triple(None, None, Dict(<<KV("error", r.exc)>>))
  ELSE IF r.status # 200
  THEN Triple(None, None, Dict(<<KV("error", Str(<<"status", StatusToken(r.status)>>)),
                                 KV("text", r.text)>>))
  ELSE IF r.json = Raise
  THEN Triple(None, None, Dict(<<KV("error", Str(<<"invalid json">>))>>))
  ELSE ParseBody(r.json, prop)

-----------------------------------------------------------------------------
(* fetch_soil_data_all *)

\* d[k] = v on a mapping d
SetItem(d, k, v) ==
  IF \E j \in 1..Len(d.kv) : d.kv[j].k = k
  THEN Dict([j \in 1..Len(d.kv) |-> IF d.kv[j].k = k THEN KV(k, v) ELSE d.kv[j]])
  ELSE Dict(Append(d.kv, KV(k, v)))

\* {"value": val, "unit": unit, "raw": raw}
Record(res) == Dict(<<KV("value", res.value), KV("unit", res.unit), KV("raw", res.raw)>>)

\* the loop body with a property left out of out when it has no value
LoopBodySkipAbsent(o, r, p) ==
  LET res == fetch_property_for_point(r, p)
  IN  IF res = Raise THEN Raise
      ELSE IF res.value = None THEN o
      ELSE SetItem(o, p, Record(res))

\* the loop body with a failed request raised instead of recorded
LoopBodyAbortOnFailure(o, r, p) ==
  LET res == fetch_property_for_point(r, p)
  IN  IF res = Raise \/ r.exc # None \/ r.status # 200 \/ r.json = Raise THEN Raise
      ELSE SetItem(o, p, Record(res))

\* out[p] = {"value": val, "unit": unit, "raw": raw}
Store(o, p, res) == IF res = Raise THEN Raise ELSE SetItem(o, p, Record(res))

\* the loop body for property p, answered with r: the new out, or Raise
LoopBody(o, r, p) == Store(o, p, fetch_property_for_point(r, p))

-----------------------------------------------------------------------------
(* Inputs: statistic sets and depth entries the upstream service can send *)

\* the longest statistic set drawn
MaxStats == 3

\* the longest list of depth entries drawn
MaxDepths == 2

\* 3.1
ThreePointOne == Num(3, 1000000)

StatKeys == {"mean", "Q0.5", "median", "Q0.05", "Q0.95", "std", "uncertainty"}

\* a null, a number, a numeric text and a text that is no number
StatValues == {None, ThreePointOne, Str(<<"7">>), Str(<<"n", "a">>)}

\* values arguments that are no mapping
NoStatisticSets == {None, List(<<ThreePointOne>>), Str(<<"7">>)}

\* the mapping with keys ks and values vs, in that stored order
StatisticSet(ks, vs) == Dict([j \in DOMAIN ks |-> KV(ks[j], vs[j])])

\* no key twice
Distinct(ks) == \A i, j \in DOMAIN ks : ks[i] = ks[j] => i = j

Range(top, bottom) == KV("range", Dict(<<KV("top", top), KV("bottom", bottom)>>))

Mean(v) == KV("values", Dict(<<KV("mean", v)>>))

Label(k, chars) == KV(k, Str(chars))

\* depth entries with ranges and labels that match a preferred pair or none
GoodEntries ==
  { Dict(<<Range(Whole(0), Whole(30)), Mean(Whole(10))>>),
    Dict(<<Range(Whole(0), Whole(5)), Mean(Whole(20))>>),
    Dict(<<KV("range", Dict(<<KV("top_depth", Whole(0)), KV("bottom_depth", Whole(15))>>)),
           Label("label", <<"0", "-", "1", "5", "c", "m">>), Mean(Whole(30))>>),
    Dict(<<Label("label", <<"0", "-", "5", "c", "m">>), Mean(Whole(150))>>),
    Dict(<<Label("label", <<>>),
           Label("depth_label", <<"0", " ", "endash", " ", "3", "0", " ", "c", "m">>)>>),
    Dict(<<Range(Whole(5), Whole(15)),
           KV("values", Dict(<<KV("mean", None), KV("Q0.5", Str(<<"7">>))>>))>>),
    Dict(<<Range(Whole(15), Whole(30)), Label("label", <<"1", "5", "-", "3", "0", "c", "m">>),
           Mean(None)>>),
    Dict(<<Range(Num(0, 9), Num(4, Frac - 9)), Mean(Whole(60))>>),
    Dict(<<Range(Num(0, 10), Whole(5)), Mean(Whole(70))>>),
    Dict(<<Range(Str(<<"0">>), Str(<<"3", "0">>)), Mean(Whole(80))>>),
    Dict(<<Range(Whole(100), Whole(200)), KV("label", Whole(5)),
           KV("values", Str(<<"n", "a">>))>>) }

\* depth entries whose range gives no (top, bottom)
PartialEntries ==
  { Dict(<<KV("range", Dict(<<KV("top", Whole(5))>>)), Mean(Whole(90))>>),
    Dict(<<Range(Str(<<"a", "b", "c">>), Whole(5))>>),
    Dict(<<Range(Whole(10000), Whole(10010)), Mean(Whole(95))>>),
    Dict(<<Label("label", <<"t", "o", "p">>)>>),
    Dict(<<>>) }

\* depth entries that are no mapping, or whose range is none
MalformedEntries ==
  { Dict(<<KV("range", Str(<<"0", "-", "5">>)), Mean(Whole(99))>>),
    Str(<<"0", "-", "5", "c", "m">>) }

DepthEntries == GoodEntries \cup PartialEntries \cup MalformedEntries

\* depths values that are no list
NoDepthLists == {None, Whole(5), Str(<<"0", "-", "5">>), Dict(<<Range(Whole(0), Whole(5))>>)}

\* the list of the elements of a function on 1..n
ListOf(xs) == List([j \in DOMAIN xs |-> xs[j]])

-----------------------------------------------------------------------------
(* The helpers, each called once on an input drawn at the start *)

NoOrchestration == idx = 0 /\ out = <<>> /\ upstream = None /\ served = <<>> /\ requests = <<>>

\* values is a mapping of at most MaxStats items in any stored order, or no mapping
InitValues ==
  /\ pc = "call"
  /\ \E n \in 0..MaxStats + 1 :
        IF n <= MaxStats
        THEN \E ks \in [1..n -> StatKeys], vs \in [1..n -> StatValues] :
                Distinct(ks) /\ arg = StatisticSet(ks, vs)
        ELSE arg \in NoStatisticSets
  /\ ret = None
  /\ NoOrchestration

ExtractNumeric ==
  /\ pc = "call"
  /\ ret' = _extract_numeric_from_values(arg)
  /\ pc' = "done"
  /\ UNCHANGED <<arg, idx, out, upstream, served, requests>>

SpecValues == InitValues /\ [][ExtractNumeric]_vars

\* depths is a list of at most MaxDepths entries, or no list
InitPick ==
  /\ pc = "call"
  /\ \E n \in 0..MaxDepths + 1 :
        IF n <= MaxDepths
        THEN \E xs \in [1..n -> DepthEntries] : arg = ListOf(xs)
        ELSE arg \in NoDepthLists
  /\ ret = None
  /\ NoOrchestration

PickDepthEntry ==
  /\ pc = "call"
  /\ ret' = _pick_depth_entry(arg)
  /\ pc' = "done"
  /\ UNCHANGED <<arg, idx, out, upstream, served, requests>>

SpecPick == InitPick /\ [][PickDepthEntry]_vars

-----------------------------------------------------------------------------
(* Inputs: unit descriptors, layers and response bodies *)

\* the items of one field of a unit descriptor: missing, null, empty or set to text
Field(k, how, text) ==
  CASE how = "missing" -> <<>>
    [] how = "null" -> <<KV(k, None)>>
    [] how = "empty" -> <<KV(k, Str(<<>>))>>
    [] how = "set" -> <<KV(k, Str(<<text>>))>>

FieldStates == {"missing", "null", "empty", "set"}

\* unit_measure mappings in every combination of the three unit fields, with and without d_factor
UnitMeasures ==
  {Dict(d \o Field("mapped_units", a, "dg/kg") \o Field("target_units", b, "g/kg")
          \o Field("unit", c, "pH")) :
     a \in FieldStates, b \in FieldStates, c \in FieldStates,
     d \in {<<>>, <<KV("d_factor", Whole(10))>>}}

\* the layer arguments of _extract_unit
UnitLayers ==
  {Dict(<<KV("unit_measure", um)>>) : um \in UnitMeasures \cup {None, Str(<<"g/kg">>)}}
    \cup {Dict(<<>>)}

\* the unit_measure items of a layer: missing, scaled with both unit names, unscaled, no mapping
LayerUnits ==
  { <<>>,
    <<KV("unit_measure", Dict(<<KV("d_factor", Whole(10)), KV("mapped_units", Str(<<"dg/kg">>)),
                                KV("target_units", Str(<<"g/kg">>))>>))>>,
    <<KV("unit_measure", Dict(<<KV("d_factor", Whole(0)), KV("unit", Str(<<"pH">>))>>))>>,
    <<KV("unit_measure", Dict(<<KV("target_units", Str(<<"g/kg">>))>>))>>,
    <<KV("unit_measure", Str(<<"g/kg">>))>> }

\* a layer object as the service sends it for property name
LayerObj(name, unit, depths) == Dict(<<KV("name", Str(<<name>>))>> \o unit \o depths)

\* the depths items of a layer whose depths is v
Depths(v) == <<KV("depths", v)>>

\* a parsed body whose properties.layers is layers
Body(layers) ==
  Dict(<<KV("type", Str(<<"Feature">>)), KV("properties", Dict(<<KV("layers", layers)>>))>>)

\* parsed bodies of another shape than a layers collection holding layer mappings
OddBodies ==
  { None, List(<<>>), Str(<<"ok">>), Dict(<<>>),
    Dict(<<KV("properties", None)>>), Dict(<<KV("properties", List(<<>>))>>),
    Dict(<<KV("properties", Dict(<<>>))>>),
    Body(None), Body(Whole(5)), Body(Str(<<"soc">>)), Body(Dict(<<>>)), Body(List(<<>>)),
    Body(Dict(<<KV("soc", None)>>)), Body(Dict(<<KV("soc", Dict(<<>>))>>)),
    Body(Dict(<<KV("soc", Str(<<"n", "/", "a">>))>>)),
    Body(Dict(<<KV("soc", List(<<Whole(1)>>))>>)),
    Body(Dict(<<KV("soc", Bool(TRUE))>>)),
    Body(List(<<Str(<<"soc">>), Whole(1)>>)) }

OK(json) == Response(None, 200, Str(<<>>), json)

\* the responses without a parsed body: a transport error, a status other than 200, a bad body
FailedResponses ==
  { Response(Str(<<"timeout">>), 0, None, None),
    Response(None, 404, Str(<<"not found">>), None),
    Response(None, 500, Str(<<"server error">>), Raise),
    Response(None, 200, Str(<<"<html>">>), Raise) }

\* the responses that hold no layer mapping
OddResponses == FailedResponses \cup {OK(b) : b \in OddBodies}

\* the response that holds the layer l of soc, in a mapping of layers or in a list of layers
LayerResponse(form, l) ==
  IF form = "mapping" THEN OK(Body(Dict(<<KV("soc", l)>>))) ELSE OK(Body(List(<<l>>)))

-----------------------------------------------------------------------------
(* _extract_unit and fetch_property_for_point, each called once *)

InitUnit == pc = "call" /\ arg \in UnitLayers /\ ret = None /\ NoOrchestration

ExtractUnit ==
  /\ pc = "call"
  /\ ret' = _extract_unit(arg)
  /\ pc' = "done"
  /\ UNCHANGED <<arg, idx, out, upstream, served, requests>>

SpecUnit == InitUnit /\ [][ExtractUnit]_vars

\* a request for soc or for ocs, answered with a response for soc
InitPoint ==
  /\ pc = "call"
  /\ \E p \in {"soc", "ocs"}, n \in 0..MaxDepths + 2 :
        IF n <= MaxDepths
        THEN \E xs \in [1..n -> DepthEntries], u \in LayerUnits, form \in {"mapping", "list"} :
                arg = [r |-> LayerResponse(form, LayerObj("soc", u, Depths(ListOf(xs)))), prop |-> p]
        ELSE IF n = MaxDepths + 1
        THEN \E d \in {<<>>} \cup {Depths(v) : v \in NoDepthLists}, u \in LayerUnits,
                form \in {"mapping", "list"} :
                arg = [r |-> LayerResponse(form, LayerObj("soc", u, d)), prop |-> p]
        ELSE \E r \in OddResponses : arg = [r |-> r, prop |-> p]
  /\ ret = None
  /\ NoOrchestration

FetchPropertyForPoint ==
  /\ pc = "call"
  /\ ret' = fetch_property_for_point(arg.r, arg.prop)
  /\ pc' = "done"
  /\ UNCHANGED <<arg, idx, out, upstream, served, requests>>

SpecPoint == InitPoint /\ [][FetchPropertyForPoint]_vars

-----------------------------------------------------------------------------
(* The same layer sent in a list of layers and in a mapping of layers *)

\* the most list items drawn before, and after, the layer
MaxDecoys == 1

\* another property's layer
OtherLayer ==
  LayerObj("clay", <<>>, Depths(List(<<Dict(<<Range(Whole(0), Whole(5)), Mean(Whole(33))>>)>>)))

\* a second layer of the same name with other content
SecondLayer ==
  LayerObj("soc", <<>>, Depths(List(<<Dict(<<Range(Whole(0), Whole(5)), Mean(Whole(44))>>)>>)))

\* list items that are not a layer named soc
Unnamed ==
  { Whole(5), Str(<<"soc">>), OtherLayer, Dict(<<KV("name", None), Mean(Whole(55))>>) }

\* the depths items of the layers compared
FewDepths ==
  {Depths(List(<<e>>)) : e \in DepthEntries}
    \cup {<<>>, Depths(None), Depths(Whole(5)),
          Depths(List(<<Dict(<<Range(Whole(0), Whole(30)), Mean(Whole(10))>>),
                        Dict(<<Range(Whole(0), Whole(5)), Mean(Whole(20))>>)>>))}

\* the list items of a function on 1..n
Items(xs) == [j \in DOMAIN xs |-> xs[j]]

\* the response whose layers is the list before, layer, after
ListForm(a) == OK(Body(List(a.before \o <<a.layer>> \o a.after)))

\* the response whose layers is a mapping keyed by property code
MappingForm(a) == OK(Body(Dict(<<KV("clay", OtherLayer), KV(a.prop, a.layer)>>)))

InitLayers ==
  /\ pc = "call"
  /\ \E u \in LayerUnits, d \in FewDepths, m \in 0..MaxDecoys, n \in 0..MaxDecoys :
        \E b \in [1..m -> Unnamed], a \in [1..n -> Unnamed \cup {SecondLayer}] :
           arg = [prop |-> "soc", layer |-> LayerObj("soc", u, d),
                  before |-> Items(b), after |-> Items(a)]
  /\ ret = [list |-> None, mapping |-> None]
  /\ NoOrchestration

QueryListForm ==
  /\ pc = "call"
  /\ ret' = [ret EXCEPT !.list = fetch_property_for_point(ListForm(arg), arg.prop)]
  /\ pc' = "listed"
  /\ UNCHANGED <<arg, idx, out, upstream, served, requests>>

QueryMappingForm ==
  /\ pc = "listed"
  /\ ret' = [ret EXCEPT !.mapping = fetch_property_for_point(MappingForm(arg), arg.prop)]
  /\ pc' = "done"
  /\ UNCHANGED <<arg, idx, out, upstream, served, requests>>

SpecLayers == InitLayers /\ [][QueryListForm \/ QueryMappingForm]_vars

-----------------------------------------------------------------------------
(* fetch_soil_data_all against a service whose behaviour changes between requests *)

\* how often the service changes its behaviour during one call
MaxChanges == 2

Kinds ==
  {"transport", "status", "badjson", "nolayer", "nodepths", "nullvalues", "value", "malformed"}

\* the position of a code in PROPERTIES
PropIndex(p) == CHOOSE j \in 1..Len(PROPERTIES) : PROPERTIES[j] = p

\* the mean the service holds for a property
GoodValue(p) == Whole(100 + PropIndex(p))

ScaledUnit ==
  <<KV("unit_measure", Dict(<<KV("d_factor", Whole(10)), KV("mapped_units", Str(<<"dg/kg">>)),
                              KV("target_units", Str(<<"g/kg">>))>>))>>

TopsoilRange == KV("range", Dict(<<KV("top_depth", Whole(0)), KV("bottom_depth", Whole(5))>>))

\* what requests.get gives for property p when the service behaves as kind
Outcome(kind, p) ==
  CASE kind = "transport" -> Response(Str(<<"timeout">>), 0, None, None)
    [] kind = "status" -> Response(None, 500, Str(<<"server error">>), Raise)
    [] kind = "badjson" -> Response(None, 200, Str(<<"<html>">>), Raise)
    [] kind = "nolayer" -> OK(Body(List(<<>>)))
    [] kind = "nodepths" -> OK(Body(List(<<LayerObj(p, ScaledUnit, Depths(List(<<>>)))>>)))
    [] kind = "nullvalues" ->
         OK(Body(List(<<LayerObj(p, ScaledUnit,
              Depths(List(<<Dict(<<TopsoilRange, Mean(None)>>),
                            Dict(<<Range(Whole(5), Whole(15)), KV("values", None)>>)>>)))>>)))
    [] kind = "value" ->
         OK(Body(List(<<LayerObj(p, ScaledUnit,
              Depths(List(<<Dict(<<TopsoilRange, Mean(GoodValue(p))>>)>>)))>>)))
    [] kind = "malformed" -> OK(Body(Dict(<<KV(p, Str(<<"n", "/", "a">>))>>)))

\* the default point of the form and the origin
Coordinates ==
  { [lat |-> Num(12, 9716000), lon |-> Num(77, 5946000)], [lat |-> Whole(0), lon |-> Whole(0)] }

Init ==
  /\ pc = "loop"
  /\ arg \in Coordinates
  /\ ret = None
  /\ idx = 0
  /\ out = Dict(<<>>)
  /\ upstream \in {[kind |-> k, changes |-> 0] : k \in Kinds}
  /\ served = <<>>
  /\ requests = <<>>

\* one turn of for p in PROPERTIES: the request, its response, the record stored
FetchNext ==
  /\ pc = "loop"
  /\ idx < Len(PROPERTIES)
  /\ \E k \in Kinds, p \in {PROPERTIES[idx + 1]} :
        \E r \in {Outcome(k, p)} :
           \E o \in {LoopBody(out, r, p)} :
              /\ IF k = upstream.kind THEN UNCHANGED upstream
                 ELSE /\ upstream.changes < MaxChanges
                      /\ upstream' = [kind |-> k, changes |-> upstream.changes + 1]
              /\ requests' = Append(requests, params(arg.lat, arg.lon, p))
              /\ served' = Append(served, r)
              /\ IF o = Raise
                 THEN pc' = "raised" /\ ret' = Raise /\ UNCHANGED <<idx, out>>
                 ELSE out' = o /\ idx' = idx + 1 /\ UNCHANGED <<pc, ret>>
  /\ UNCHANGED arg

\* return out, None
Return ==
  /\ pc = "loop"
  /\ idx = Len(PROPERTIES)
  /\ pc' = "returned"
  /\ ret' = [t |-> "pair", out |-> out, err |-> None]
  /\ UNCHANGED <<arg, idx, out, upstream, served, requests>>

Next == FetchNext \/ Return

Spec == Init /\ [][Next]_vars

-----------------------------------------------------------------------------
(* Properties of _extract_numeric_from_values (SpecValues) *)

Min(S) == CHOOSE x \in S : \A y \in S : x <= y

\* present, non-null and numeric
IsNumeric(v) == v # None /\ ToFloat(v) # Raise

StatisticOrder == <<"mean", "Q0.5", "median", "Q0.05", "Q0.95">>

\* C7: _extract_numeric_from_values never faults; it returns the value of the first of
\* mean, Q0.5, median, Q0.05, Q0.95 that is present, non-null and numeric, else the first
\* non-null numeric entry in stored order, and None only when the set has no such entry
\* (or is no mapping).
C7_FirstNumericStatistic ==
  pc = "done" =>
    /\ ret # Raise
    /\ arg.t # "dict" => ret = None
    /\ arg.t = "dict" =>
         LET P == {j \in 1..Len(StatisticOrder) : IsNumeric(Get(arg, StatisticOrder[j]))}
             F == {j \in 1..Len(arg.kv) : IsNumeric(arg.kv[j].v)}
         IN  IF P # {} THEN ret = ToFloat(Get(arg, StatisticOrder[Min(P)]))
             ELSE IF F # {} THEN ret = ToFloat(arg.kv[Min(F)].v)
             ELSE ret = None

\* {"Q0.05": 3.1, "mean": null} has given 3.1
C7_Witness ==
  /\ pc = "done"
  /\ arg = Dict(<<KV("Q0.05", ThreePointOne), KV("mean", None)>>)
  /\ ret = ThreePointOne

-----------------------------------------------------------------------------
(* Properties of _pick_depth_entry (SpecPick) *)

\* the entry is a mapping and its range is a mapping, null or missing
WellFormedEntry(d) == d.t = "dict" /\ Or(Get(d, "range"), Dict(<<>>)).t = "dict"

\* a non-empty list of well-formed depth entries
DepthEntryList(v) ==
  v.t = "list" /\ v.xs # <<>> /\ \A j \in 1..Len(v.xs) : WellFormedEntry(v.xs[j])

\* the entry matches the pair by its structured range or by its parsed label
EntryMatches(d, pref) ==
  \E tb \in {_get_top_bottom_from_range(d),
             _try_parse_depth_from_label(Or(Or(Get(d, "label"), Get(d, "depth_label")), Str(<<>>)))} :
     tb.t = "tuple" /\ Close(tb.top, pref.top) /\ Close(tb.bottom, pref.bottom)

\* the indices of the preferred pairs some entry of xs matches
MatchedPairs(xs) ==
  {p \in 1..Len(PREFERRED_DEPTHS) : \E j \in 1..Len(xs) : EntryMatches(xs[j], PREFERRED_DEPTHS[p])}

\* C6: for a non-empty list of depth entries of which some matches a preferred pair,
\* _pick_depth_entry returns an entry that matches the earliest pair of PREFERRED_DEPTHS
\* any entry matches, whatever the order of the entries.
C6_EarliestPreferredPair ==
  (pc = "done" /\ DepthEntryList(arg) /\ MatchedPairs(arg.xs) # {}) =>
     \E j \in 1..Len(arg.xs) :
        /\ ret = arg.xs[j]
        /\ EntryMatches(arg.xs[j], PREFERRED_DEPTHS[Min(MatchedPairs(arg.xs))])

\* [0-30 (mean 10), 0-5 (mean 20)] has given the 0-5 entry, whose mean is 20
C6_Witness ==
  /\ pc = "done"
  /\ arg = List(<<Dict(<<Range(Whole(0), Whole(30)), Mean(Whole(10))>>),
                  Dict(<<Range(Whole(0), Whole(5)), Mean(Whole(20))>>)>>)
  /\ ret.t = "dict"
  /\ Get(Get(ret, "values"), "mean") = Whole(20)

\* the top of an entry's range as a number, None when it is missing or cannot be parsed
TopOf(d) ==
  LET rng == Or(Get(d, "range"), Dict(<<>>))
      top == IF Get(rng, "top") # None THEN Get(rng, "top") ELSE Get(rng, "top_depth")
  IN  IF top = None \/ ToFloat(top) = Raise THEN None ELSE ToFloat(top)

\* C10: for a non-empty list of depth entries none of which matches a preferred pair,
\* _pick_depth_entry returns the entry whose top is smallest, an entry whose top cannot
\* be parsed ranking after every entry with a parseable top; the first entry is returned
\* when no top can be parsed.
C10_SmallestTop ==
  (pc = "done" /\ DepthEntryList(arg) /\ MatchedPairs(arg.xs) = {}) =>
     /\ \E j \in 1..Len(arg.xs) :
           /\ ret = arg.xs[j]
           /\ \A k \in 1..Len(arg.xs) :
                 TopOf(arg.xs[k]) # None =>
                    /\ TopOf(arg.xs[j]) # None
                    /\ ~Less(TopOf(arg.xs[k]), TopOf(arg.xs[j]))
     /\ (\A k \in 1..Len(arg.xs) : TopOf(arg.xs[k]) = None) => ret = arg.xs[1]

-----------------------------------------------------------------------------
(* Properties of _extract_unit (SpecUnit) *)

\* the unit descriptor of a layer
UnitMeasureOf(layer) == Or(Get(layer, "unit_measure"), Dict(<<>>))

\* C9 as stated: the unit is the target units, else the mapped units, else the generic
\* unit, and absent (None or an empty text) when none is set.
C9_TargetUnitsFirst ==
  (pc = "done" /\ UnitMeasureOf(arg).t = "dict") =>
     LET um == UnitMeasureOf(arg)
     IN  IF Truthy(Get(um, "target_units")) THEN ret = Get(um, "target_units")
         ELSE IF Truthy(Get(um, "mapped_units")) THEN ret = Get(um, "mapped_units")
         ELSE IF Truthy(Get(um, "unit")) THEN ret = Get(um, "unit")
         ELSE ~Truthy(ret)

\* C9 amended: the unit is the mapped units when they are a non-empty text, else the
\* target units when they are, else the generic unit field as it stands (None when it is
\* missing): a layer with both mapped and target units reports its mapped units.
C9_MappedUnitsFirst ==
  (pc = "done" /\ UnitMeasureOf(arg).t = "dict") =>
     LET um == UnitMeasureOf(arg)
     IN  ret = IF Truthy(Get(um, "mapped_units")) THEN Get(um, "mapped_units")
               ELSE IF Truthy(Get(um, "target_units")) THEN Get(um, "target_units")
               ELSE Get(um, "unit")

\* a layer with both target and mapped units has reported the mapped units
C9_Witness ==
  /\ pc = "done"
  /\ UnitMeasureOf(arg).t = "dict"
  /\ Get(UnitMeasureOf(arg), "target_units") = Str(<<"g/kg">>)
  /\ Get(UnitMeasureOf(arg), "mapped_units") = Str(<<"dg/kg">>)
  /\ ret = Str(<<"dg/kg">>)

-----------------------------------------------------------------------------
(* Properties of fetch_property_for_point (SpecPoint) *)

\* the body was parsed: no transport error, status 200, r.json() returned
Parsed(r) == r.exc = None /\ r.status = 200 /\ r.json # Raise

\* the parsed body is a mapping whose properties, if any, is a mapping
ResponseMapping(r) ==
  Parsed(r) /\ r.json.t = "dict" /\ GetOr(r.json, "properties", Dict(<<>>)).t = "dict"

\* C2: for a successfully parsed response mapping, whatever the shape of its layers, of a
\* layer, of a depth entry or of a statistic set, fetch_property_for_point never raises.
C2_NeverRaises == (pc = "done" /\ ResponseMapping(arg.r)) => ret # Raise

\* the call returned a value selected from a layer: raw is the layer, its depths gave an entry
ValueSelected ==
  /\ pc = "done"
  /\ ret.t = "triple"
  /\ ret.raw.t = "dict"
  /\ Truthy(Get(ret.raw, "depths"))
  /\ Truthy(_pick_depth_entry(Get(ret.raw, "depths")))

\* the statistic extracted from the chosen depth entry of a layer, as a float
RawStatistic(layer) ==
  _extract_numeric_from_values(
    Or(Get(_pick_depth_entry(Get(layer, "depths")), "values"), Dict(<<>>)))

\* the scale factor of a layer's unit descriptor
ScaleFactor(layer) ==
  IF UnitMeasureOf(layer).t = "dict" THEN Get(UnitMeasureOf(layer), "d_factor") ELSE None

\* x * d for a whole factor d
Times(x, d) == Num(x.i * d.i + (x.f * d.i) \div Frac, (x.f * d.i) % Frac)

\* C5 as stated: with a scale factor on the unit descriptor the value is the raw statistic
\* divided by it; with a missing or zero factor it is the raw statistic.
C5_DividedByScaleFactor ==
  ValueSelected =>
     IF RawStatistic(ret.raw) = None THEN ret.value = None
     ELSE IF Truthy(ScaleFactor(ret.raw))
     THEN ret.value # None /\ Times(ret.value, ScaleFactor(ret.raw)) = RawStatistic(ret.raw)
     ELSE ret.value = RawStatistic(ret.raw)

\* C5 amended: the value is the raw statistic extracted from the chosen depth entry, as a
\* float, whether or not the unit descriptor carries a scale factor: no division is made.
C5_RawStatisticUnscaled == ValueSelected => ret.value = RawStatistic(ret.raw)

\* a layer with scale factor 10 and raw value 150 has given 150
C5_Witness ==
  /\ ValueSelected
  /\ ScaleFactor(ret.raw) = Whole(10)
  /\ RawStatistic(ret.raw) = Whole(150)
  /\ ret.value = Whole(150)

-----------------------------------------------------------------------------
(* Properties of the layer location (SpecLayers) *)

\* C8: the same layer sent as the first object named with the code in a list of layers and
\* as the entry of a mapping keyed by the code is located alike: both responses give that
\* layer and so the same value and unit (or both raise on the same malformed content).
C8_SameLayerEitherEncoding ==
  pc = "done" =>
     \/ ret.list = Raise /\ ret.mapping = Raise
     \/ /\ ret.list.t = "triple" /\ ret.mapping.t = "triple"
        /\ ret.list.raw = arg.layer /\ ret.mapping.raw = arg.layer
        /\ ret.list.value = ret.mapping.value
        /\ ret.list.unit = ret.mapping.unit

\* a layer with a value, between other list items and ahead of a second layer of its name
C8_Witness ==
  /\ pc = "done"
  /\ arg.before # <<>>
  /\ arg.after = <<SecondLayer>>
  /\ ret.list.t = "triple"
  /\ ret.list.value = Whole(20)
  /\ ret.mapping.value = Whole(20)

-----------------------------------------------------------------------------
(* Properties of fetch_soil_data_all (Spec) *)

\* the request failed: a transport error, a status other than 200 or an unparseable body
Failed(r) == r.exc # None \/ r.status # 200 \/ r.json = Raise

\* the outcomes that leave a property without a value
Valueless(r, p) ==
  Failed(r) \/ r \in {Outcome(k, p) : k \in {"nolayer", "nodepths", "nullvalues"}}

\* C1: whatever combination of transport errors, bad statuses, unparseable bodies, missing
\* layers, empty depths, null values and values the requests met, fetch_soil_data_all
\* returns, and the mapping it returns holds one record per code of PROPERTIES and no
\* other key.
C1_OneRecordPerCode ==
  /\ pc = "returned" =>
       /\ Len(ret.out.kv) = Len(PROPERTIES)
       /\ \A j \in 1..Len(PROPERTIES) :
             /\ ret.out.kv[j].k = PROPERTIES[j]
             /\ {ret.out.kv[j].v.kv[n].k : n \in 1..Len(ret.out.kv[j].v.kv)} = {"value", "unit", "raw"}
  /\ pc = "raised" =>
       \E j \in 1..Len(served) :
          ~Valueless(served[j], PROPERTIES[j]) /\ served[j] # Outcome("value", PROPERTIES[j])

\* every one of the seven requests has failed and the mapping was returned
C1_Witness ==
  /\ pc = "returned"
  /\ \A j \in 1..Len(PROPERTIES) : Failed(served[j])
  /\ \E j, k \in 1..Len(PROPERTIES) : served[j] # served[k]

\* C3: a property whose request failed, or whose depth entries hold only null values, has
\* a record with value None; the record of every other property is what its own response
\* gives, and no such failure ends the call.
C3_FailureIsolated ==
  /\ pc = "returned" =>
       \A j \in 1..Len(PROPERTIES) :
          LET p == PROPERTIES[j]
              rec == Get(ret.out, p)
          IN  /\ Valueless(served[j], p) => Get(rec, "value") = None
              /\ served[j] = Outcome("value", p) =>
                    /\ Get(rec, "value") = GoodValue(p)
                    /\ Get(rec, "unit") = Str(<<"dg/kg">>)
  /\ pc = "raised" => ~Valueless(served[Len(served)], PROPERTIES[Len(served)])

\* one request failed, one layer held only nulls, and the other five have their values
C3_Witness ==
  /\ pc = "returned"
  /\ Failed(served[1])
  /\ served[2] = Outcome("nullvalues", PROPERTIES[2])
  /\ \A j \in 3..Len(PROPERTIES) : Get(Get(ret.out, PROPERTIES[j]), "value") = GoodValue(PROPERTIES[j])

\* C4 as stated: a per-property request is issued only after a batched request for all
\* codes, which came first and failed or yielded no layers.
C4_BatchedRequestFirst ==
  \A j \in 1..Len(requests) :
     requests[j].property # AllCodes =>
        /\ j > 1
        /\ requests[1].property = AllCodes
        /\ Valueless(served[1], PROPERTIES[1])

\* C4 amended: fetch_soil_data_all makes no batched request; it issues one request per code
\* of PROPERTIES, in that order, each for that single code at the given point, the next one
\* whatever the outcome of the one before, and none twice.
C4_OneRequestPerProperty ==
  /\ Len(requests) = Len(served)
  /\ Len(requests) = IF pc = "raised" THEN idx + 1 ELSE idx
  /\ Len(requests) <= Len(PROPERTIES)
  /\ \A j \in 1..Len(requests) :
        requests[j] = [lat |-> arg.lat, lon |-> arg.lon, property |-> PROPERTIES[j],
                       depth_intervals |-> "0-5", value |-> "mean"]

\* the first request failed and the other six were still made, one per code
C4_Witness ==
  /\ pc = "returned"
  /\ Len(requests) = Len(PROPERTIES)
  /\ Failed(served[1])
  /\ ~Failed(served[2])

====
